---------------------------- MODULE Spec2Model ----------------------------
(***************************************************************************)
(* Model of usage/printer.go: the help-text preprocessor.                  *)
(*                                                                         *)
(*   markdownify      byte scanner over a bytes.Buffer                     *)
(*   findSectionEnd   end offset of a "## <title>" section                 *)
(*   helpPreprocessor markdownify, OPTIONS relocation, header lowercasing  *)
(*                                                                         *)
(* A string is a sequence of bytes.  An ASCII byte is the one-character    *)
(* string of that character; a byte >= 0x80 is written as its two hex      *)
(* digits ("C3"); the zero byte is NUL and the byte 0x60 is Backtick.      *)
(* Offsets are Go offsets (from 0), and -1 is "not found" as in            *)
(* strings.Index.                                                          *)
(***************************************************************************)
EXTENDS Integers, Sequences, FiniteSets, TLC

VARIABLES
    input,          \* the expanded help template handed to markdownify
    capOnlyFirst,   \* helpPreprocessor's parameter
    pc,             \* position in helpPreprocessor
    r,              \* markdownify: the bytes.Buffer being read
    w,              \* markdownify: the bytes.Buffer being written
    last,           \* markdownify: previous byte
    inCode,         \* markdownify: inside a code block
    s,              \* helpPreprocessor: the string being rewritten
    optLoc,         \* helpPreprocessor: offset of "## OPTIONS"
    newLoc,         \* helpPreprocessor: offset the options were inserted at
    options,        \* helpPreprocessor: the excised span
    scanned,        \* history: the bytes the switch of markdownify dispatched on
    escaped,        \* history: s as markdownify returned it
    relocated       \* history: s after the OPTIONS relocation

vars == <<input, capOnlyFirst, pc, r, w, last, inCode, s, optLoc, newLoc,
          options, scanned, escaped, relocated>>

(***************************************************************************)
(* Bounds of the model.                                                    *)
(***************************************************************************)
MaxBody  == 4    \* bytes of a scanner input after its optional opening fence
MaxLines == 3    \* lines of a help document
MaxRaw   == 3    \* bytes of a raw (unstructured) input of helpPreprocessor

(***************************************************************************)
(* Bytes.                                                                  *)
(***************************************************************************)
NUL == "NUL"
Backtick == "0x60"    \* the byte 0x60, which a TLA+ string cannot hold
escapeByte == "\\"

\* bytes >= utf8.RuneSelf that occur in the model
Continuation == {"85", "89", "A0", "A9", "BD", "BF"}
Lead2 == {"C2", "C3"}
Lead3 == {"EF"}
NonASCII == Continuation \cup Lead2 \cup Lead3

RuneError == <<"EF", "BF", "BD">>

Upper == <<"A","B","C","D","E","F","G","H","I","J","K","L","M",
           "N","O","P","Q","R","S","T","U","V","W","X","Y","Z">>
Lower == <<"a","b","c","d","e","f","g","h","i","j","k","l","m",
           "n","o","p","q","r","s","t","u","v","w","x","y","z">>

\* s[from:to] of Go
Slice(str, from, to) == SubSeq(str, from + 1, to)

\* utf8.DecodeRune on the bytes of str from offset i: the rune's bytes, or
\* RuneError with width 1 for an invalid encoding
DecodeRune(str, i) ==
    LET c == str[i + 1]
        n == Len(str)
        cont(k) == i + k + 1 <= n /\ str[i + k + 1] \in Continuation
    IN  IF c \notin NonASCII THEN [rune |-> <<c>>, size |-> 1, valid |-> TRUE]
        ELSE IF c \in Lead2 /\ cont(1)
             THEN [rune |-> Slice(str, i, i + 2), size |-> 2, valid |-> TRUE]
        ELSE IF c \in Lead3 /\ cont(1) /\ cont(2)
             THEN [rune |-> Slice(str, i, i + 3), size |-> 3, valid |-> TRUE]
        ELSE [rune |-> RuneError, size |-> 1, valid |-> FALSE]

\* unicode.IsSpace: '\t', '\n', '\v', '\f', '\r', ' ', U+0085 (NEL), U+00A0 (NBSP)
IsSpace(rune) ==
    rune \in {<<"\t">>, <<"\n">>, <<"\f">>, <<"\r">>, <<" ">>,
              <<"C2", "85">>, <<"C2", "A0">>}

(***************************************************************************)
(* bytes.Buffer: buf, the read offset, and the kind of the last operation  *)
(* (lastRead), which is what UnreadByte and UnreadRune look at.            *)
(***************************************************************************)
NewBuffer(bytes) == [buf |-> bytes, off |-> 0, lastRead |-> "opInvalid"]

BufEmpty(b) == Len(b.buf) <= b.off

BufReset(b) == [buf |-> <<>>, off |-> 0, lastRead |-> "opInvalid"]

BufString(b) == Slice(b.buf, b.off, Len(b.buf))

\* r.ReadByte(): at the end the buffer is reset and (0, io.EOF) is returned
ReadByte(b) ==
    IF BufEmpty(b)
    THEN [buf |-> BufReset(b), c |-> NUL, err |-> TRUE]
    ELSE [buf |-> [b EXCEPT !.off = @ + 1, !.lastRead = "opRead"],
          c |-> b.buf[b.off + 1], err |-> FALSE]

\* UnreadByte(): fails, changing nothing, unless the last operation on the
\* buffer was a successful read; a success clears lastRead
UnreadByte(b) ==
    IF b.lastRead = "opInvalid" THEN b
    ELSE [b EXCEPT !.lastRead = "opInvalid",
                   !.off = IF @ > 0 THEN @ - 1 ELSE @]

RuneOp(size) == CASE size = 1 -> "opReadRune1"
                  [] size = 2 -> "opReadRune2"
                  [] size = 3 -> "opReadRune3"

RuneOpSize(op) == CASE op = "opReadRune1" -> 1
                    [] op = "opReadRune2" -> 2
                    [] op = "opReadRune3" -> 3
                    [] OTHER -> 0

\* r.ReadRune()
ReadRune(b) ==
    IF BufEmpty(b)
    THEN [buf |-> BufReset(b), rune |-> <<NUL>>, err |-> TRUE]
    ELSE LET d == DecodeRune(b.buf, b.off)
         IN  [buf |-> [b EXCEPT !.off = @ + d.size, !.lastRead = RuneOp(d.size)],
              rune |-> d.rune, err |-> FALSE]

\* r.UnreadRune(): only after a successful ReadRune
UnreadRune(b) ==
    IF RuneOpSize(b.lastRead) = 0 THEN b
    ELSE [b EXCEPT !.lastRead = "opInvalid",
                   !.off = IF @ >= RuneOpSize(b.lastRead)
                           THEN @ - RuneOpSize(b.lastRead) ELSE @]

\* w.WriteByte(c) and w.WriteString(str): a write clears lastRead
Write(b, bytes) == [b EXCEPT !.buf = @ \o bytes, !.lastRead = "opInvalid"]

(***************************************************************************)
(* markdownify.  m is the state of the loop: the two buffers, last and     *)
(* inCode, and the history of the bytes the switch was entered with.  Each *)
(* case operator is the body of one case of the switch, run after the byte *)
(* c was read, followed by `last = b`.                                     *)
(***************************************************************************)
MdInit(bytes) ==
    [r |-> NewBuffer(bytes), w |-> NewBuffer(<<>>), last |-> NUL,
     inCode |-> FALSE, done |-> FALSE, scanned |-> <<>>]

\* case '<' and case '>'
caseAngle(m, c) ==
    [m EXCEPT !.w = Write(@, IF m.last # escapeByte /\ ~m.inCode
                             THEN <<Backtick>> ELSE <<c>>),
              !.last = c]

\* the rune peeked after an opening fence: "shell" before whitespace
fenceHint(rr) == IF ~rr.err /\ IsSpace(rr.rune) THEN <<"s","h","e","l","l">> ELSE <<>>

\* case '\''
caseQuote(m, c) ==
    LET r1 == ReadByte(m.r)
        r2 == ReadByte(r1.buf)
    IN  IF r1.c = c /\ r2.c = c
        THEN LET rr == ReadRune(r2.buf)
                 w1 == Write(m.w, <<Backtick, Backtick, Backtick>>)
             IN  IF ~m.inCode
                 THEN [m EXCEPT !.w = IF fenceHint(rr) # <<>>
                                      THEN Write(w1, fenceHint(rr)) ELSE w1,
                                !.r = IF rr.err THEN rr.buf ELSE UnreadRune(rr.buf),
                                !.inCode = TRUE,
                                !.last = c]
                 ELSE [m EXCEPT !.w = w1, !.r = r2.buf, !.inCode = FALSE, !.last = c]
        ELSE [m EXCEPT !.w = Write(@, <<c>>),
                       !.r = UnreadByte(UnreadByte(r2.buf)),
                       !.last = c]

\* case '*'
caseStar(m, c) ==
    IF m.inCode
    THEN LET r1 == ReadByte(m.r)
         IN  IF r1.c # "*"
             THEN [m EXCEPT !.r = r1.buf,
                            !.w = UnreadByte(Write(@, <<c>>)),
                            !.last = c]
             ELSE [m EXCEPT !.r = r1.buf, !.last = c]
    ELSE [m EXCEPT !.w = Write(@, <<c>>), !.last = c]

\* mutant of caseEscape: the pair is written but last keeps the backslash
\* (no `b = 0`)
caseEscapeKeepsLast(m, c) ==
    IF m.last = escapeByte
    THEN [m EXCEPT !.w = Write(@, <<escapeByte>>), !.last = c]
    ELSE [m EXCEPT !.last = c]

\* mutant of caseEscape: a backslash without a partner is written too
caseEscapeWritesLone(m, c) ==
    IF m.last = escapeByte
    THEN [m EXCEPT !.w = Write(@, <<escapeByte>>), !.last = NUL]
    ELSE [m EXCEPT !.w = Write(@, <<c>>), !.last = c]

\* case escapeByte
caseEscape(m, c) ==
    IF m.last = escapeByte
    THEN [m EXCEPT !.w = Write(@, <<escapeByte>>), !.last = NUL]
    ELSE [m EXCEPT !.last = c]

\* default
caseDefault(m, c) == [m EXCEPT !.w = Write(@, <<c>>), !.last = c]

\* which case of the switch a byte selects
SwitchCase(c) ==
    CASE c = "<" -> "lt"
      [] c = ">" -> "gt"
      [] c = "'" -> "quote"
      [] c = "*" -> "star"
      [] c = escapeByte -> "escape"
      [] OTHER -> "default"

\* one iteration of the for loop
Iteration(m) ==
    LET rd == ReadByte(m.r)
        m1 == [m EXCEPT !.r = rd.buf,
                        !.scanned = IF rd.err THEN @ ELSE Append(@, rd.c)]
        k  == SwitchCase(rd.c)
    IN  IF rd.err THEN [m1 EXCEPT !.done = TRUE]
        ELSE CASE k \in {"lt", "gt"} -> caseAngle(m1, rd.c)
               [] k = "quote" -> caseQuote(m1, rd.c)
               [] k = "star" -> caseStar(m1, rd.c)
               [] k = "escape" -> caseEscape(m1, rd.c)
               [] OTHER -> caseDefault(m1, rd.c)

RECURSIVE MdRun(_)
MdRun(m) == IF m.done THEN m ELSE MdRun(Iteration(m))

markdownify(bytes) == BufString(MdRun(MdInit(bytes)).w)

(***************************************************************************)
(* strings.Index, the two regular expressions, findSectionEnd.             *)
(***************************************************************************)
RECURSIVE IndexFrom(_, _, _)
IndexFrom(str, sub, i) ==
    IF i + Len(sub) > Len(str) THEN -1
    ELSE IF Slice(str, i, i + Len(sub)) = sub THEN i
    ELSE IndexFrom(str, sub, i + 1)

\* strings.Index(str, sub)
Index(str, sub) == IndexFrom(str, sub, 0)

\* ^ of a (?m:...) expression: the start of the text or just after a newline
LineStart(str, i) == i = 0 \/ str[i] = "\n"

RECURSIVE sectionReFrom(_, _)
sectionReFrom(str, i) ==
    IF i + 2 > Len(str) THEN -1
    ELSE IF LineStart(str, i) /\ Slice(str, i, i + 2) = <<"#", "#">> THEN i
    ELSE sectionReFrom(str, i + 1)

\* sectionRe.FindStringIndex(str)[0], or -1 for nil; sectionRe is (?m:^##)
sectionRe(str) == sectionReFrom(str, 0)

Header(h) == <<"#", "#", " ">> \o h

\* mutant of findSectionEnd: the two bytes skipped before the search are not
\* added back
findSectionEndShort(h, str) ==
    LET start == Index(str, Header(h))
    IN  IF start = -1 THEN start
        ELSE LET nextSection == sectionRe(Slice(str, start + 2, Len(str)))
             IN  IF nextSection = -1 THEN Len(str)
                 ELSE start + nextSection

findSectionEnd(h, str) ==
    LET start == Index(str, Header(h))
    IN  IF start = -1 THEN start
        ELSE LET nextSection == sectionRe(Slice(str, start + 2, Len(str)))
             IN  IF nextSection = -1 THEN Len(str)
                 ELSE start + 2 + nextSection

(***************************************************************************)
(* helpPreprocessor: the OPTIONS relocation.                               *)
(***************************************************************************)
OPTIONS     == <<"O","P","T","I","O","N","S">>
POSITIONAL  == <<"P","O","S","I","T","I","O","N","A","L"," ",
                 "A","R","G","U","M","E","N","T","S">>
Description == <<"D","e","s","c","r","i","p","t","i","o","n">>
USAGE       == <<"U","S","A","G","E">>
NAME        == <<"N","A","M","E">>

\* mutant of Targets: the chain tests the sections in the opposite order
TargetsReversed == <<NAME, USAGE, Description, POSITIONAL>>

\* the sections the options go after, in the order of the if-else chain
Targets == <<POSITIONAL, Description, USAGE, NAME>>

\* mutant of excise: the span is not removed
exciseNothing(str, loc, end) == str

\* s[:optLoc] + s[optEnd:]
excise(str, loc, end) == Slice(str, 0, loc) \o Slice(str, end, Len(str))

\* s[:newLoc] + options + s[newLoc:]
insert(str, loc, opts) == Slice(str, 0, loc) \o opts \o Slice(str, loc, Len(str))

\* the branch of the if-else chain taken on str: the index in Targets of the
\* first section findSectionEnd finds, or 0 for the final else
RECURSIVE branchFrom(_, _)
branchFrom(str, k) ==
    IF k > Len(Targets) THEN 0
    ELSE IF findSectionEnd(Targets[k], str) # -1 THEN k
    ELSE branchFrom(str, k + 1)

branch(str) == branchFrom(str, 1)

\* lines 81-100: the section ends are searched in s after the excision;
\* newLoc is -1 when no branch of the chain binds it
relocate(str) ==
    LET loc == Index(str, Header(OPTIONS))
        end == findSectionEnd(OPTIONS, str)
    IN  IF loc = -1 \/ end = -1
        THEN [s |-> str, optLoc |-> loc, newLoc |-> -1, options |-> <<>>]
        ELSE LET opts == Slice(str, loc, end)
                 cut  == excise(str, loc, end)
                 k    == branch(cut)
             IN  IF k = 0
                 THEN [s |-> cut \o opts, optLoc |-> loc, newLoc |-> -1,
                       options |-> opts]
                 ELSE LET at == findSectionEnd(Targets[k], cut)
                      IN  [s |-> insert(cut, at, opts), optLoc |-> loc,
                           newLoc |-> at, options |-> opts]

(***************************************************************************)
(* helpPreprocessor: the header lowercasing.                               *)
(***************************************************************************)
ToLowerByte(c) ==
    IF \E i \in 1..Len(Upper) : Upper[i] = c
    THEN Lower[CHOOSE i \in 1..Len(Upper) : Upper[i] = c]
    ELSE c

\* unicode.ToLower on a decoded rune (the model holds one cased rune beyond
\* ASCII: U+00C9, whose lower case is U+00E9)
ToLowerRune(rune) ==
    IF rune = <<"C3", "89">> THEN <<"C3", "A9">>
    ELSE IF Len(rune) = 1 THEN <<ToLowerByte(rune[1])>>
    ELSE rune

\* strings.Map(unicode.ToLower, str): rune by rune, an invalid byte becomes
\* U+FFFD (Go 1.12 and later return valid UTF-8 from every mapping)
RECURSIVE MapToLower(_, _)
MapToLower(str, i) ==
    IF i >= Len(str) THEN <<>>
    ELSE LET d == DecodeRune(str, i)
         IN  (IF d.valid THEN ToLowerRune(d.rune) ELSE RuneError)
             \o MapToLower(str, i + d.size)

\* strings.ToLower: bytewise when str is ASCII, strings.Map otherwise
ToLower(str) ==
    IF \A i \in 1..Len(str) : str[i] \notin NonASCII
    THEN [i \in 1..Len(str) |-> ToLowerByte(str[i])]
    ELSE MapToLower(str, 0)

\* mutant of lowerAfterFirst: the whole match is lowered and appended
lowerAfterFirstWhole(match) == Slice(match, 0, 4) \o ToLower(match)

\* the function given to ReplaceAllStringFunc
lowerAfterFirst(match) == Slice(match, 0, 4) \o ToLower(Slice(match, 4, Len(match)))

RECURSIVE LineEnd(_, _)
LineEnd(str, i) ==
    IF i >= Len(str) \/ str[i + 1] = "\n" THEN i ELSE LineEnd(str, i + 1)

\* sectionNameRe, (?m:^## [^\n]+), matches at offset i
sectionNameReAt(str, i) ==
    /\ LineStart(str, i)
    /\ i + 4 <= Len(str)
    /\ Slice(str, i, i + 3) = <<"#", "#", " ">>
    /\ str[i + 4] # "\n"

\* sectionNameRe.ReplaceAllStringFunc(str, f) from offset i on
RECURSIVE replaceFrom(_, _)
replaceFrom(str, i) ==
    IF i >= Len(str) THEN <<>>
    ELSE IF sectionNameReAt(str, i)
         THEN lowerAfterFirst(Slice(str, i, LineEnd(str, i)))
              \o replaceFrom(str, LineEnd(str, i))
    ELSE <<str[i + 1]>> \o replaceFrom(str, i + 1)

\* lines 103-107
capitalize(str, cap) == IF cap THEN replaceFrom(str, 0) ELSE str

\* helpPreprocessor on the text cli.HelpPrinterCustom wrote
helpPreprocessor(text, cap) == capitalize(relocate(markdownify(text)).s, cap)

(***************************************************************************)
(* Inputs.                                                                 *)
(***************************************************************************)
SeqsUpTo(S, n) == UNION {[1..k -> S] : k \in 0..n}

\* the bytes markdownify treats specially, a whitespace and a plain byte
ScanBytes == {"<", ">", "'", "*", escapeByte, " ", "a"}

Fence == <<"'", "'", "'">>

\* scanner inputs: a body, alone or inside an opened code block
ScanInputs ==
    {pre \o body : pre \in {<<>>, Fence}, body \in SeqsUpTo(ScanBytes, MaxBody)}

EXAMPLES == <<"E","X","A","M","P","L","E","S">>

\* the lines of a help document: the section headers the relocation looks
\* for, another header, a header that begins with U+00C9, a sub-header, a
\* body line
Lines ==
    {Header(NAME), Header(USAGE), Header(Description), Header(POSITIONAL),
     Header(OPTIONS), Header(EXAMPLES), Header(<<"C3", "89", "A">>),
     <<"#", "#", "#", " ", "S">>, <<"<", "f", ">">>}

RECURSIVE Join(_)
Join(ls) == IF ls = <<>> THEN <<>> ELSE Head(ls) \o <<"\n">> \o Join(Tail(ls))

\* a document of whole lines; the last one may lack its newline
Document(ls, finalNewline) ==
    IF finalNewline \/ ls = <<>> THEN Join(ls)
    ELSE Slice(Join(ls), 0, Len(Join(ls)) - 1)

Documents ==
    {Document(ls, nl) : ls \in SeqsUpTo(Lines, MaxLines), nl \in BOOLEAN}

RawInputs == SeqsUpTo(ScanBytes, MaxRaw)

(***************************************************************************)
(* The state machine.                                                      *)
(***************************************************************************)
InitWith(inputs, caps) ==
    /\ input \in inputs
    /\ capOnlyFirst \in caps
    /\ pc = "markdownify"
    /\ r = NewBuffer(input)
    /\ w = NewBuffer(<<>>)
    /\ last = NUL
    /\ inCode = FALSE
    /\ scanned = <<>>
    /\ s = <<>>
    /\ optLoc = -1
    /\ newLoc = -1
    /\ options = <<>>
    /\ escaped = <<>>
    /\ relocated = <<>>

\* helpPreprocessor called by HelpPrinter (false) or by htmlHelpPrinter and
\* markdownHelpPrinter (true)
Init == InitWith(Documents \cup RawInputs, BOOLEAN)

\* markdownify called on its own
InitScan == InitWith(ScanInputs, {FALSE})

MdState ==
    [r |-> r, w |-> w, last |-> last, inCode |-> inCode, done |-> FALSE,
     scanned |-> scanned]

SetMd(m) ==
    /\ r' = m.r
    /\ w' = m.w
    /\ last' = m.last
    /\ inCode' = m.inCode
    /\ scanned' = m.scanned

\* one iteration of the loop of markdownify whose ReadByte succeeds
ScanStep ==
    /\ pc = "markdownify"
    /\ ~ReadByte(r).err
    /\ SetMd(Iteration(MdState))
    /\ UNCHANGED <<input, capOnlyFirst, pc, s, optLoc, newLoc, options,
                   escaped, relocated>>

\* the iterations, by the case of the switch they enter
ScanLt ==
    /\ SwitchCase(ReadByte(r).c) = "lt"
    /\ ScanStep

ScanGt ==
    /\ SwitchCase(ReadByte(r).c) = "gt"
    /\ ScanStep

ScanQuote ==
    /\ SwitchCase(ReadByte(r).c) = "quote"
    /\ ScanStep

ScanStar ==
    /\ SwitchCase(ReadByte(r).c) = "star"
    /\ ScanStep

ScanEscape ==
    /\ SwitchCase(ReadByte(r).c) = "escape"
    /\ ScanStep

ScanDefault ==
    /\ SwitchCase(ReadByte(r).c) = "default"
    /\ ScanStep

\* the iteration whose ReadByte fails: return w.String()
ScanEOF ==
    /\ pc = "markdownify"
    /\ ReadByte(r).err
    /\ SetMd(Iteration(MdState))
    /\ s' = BufString(w)
    /\ escaped' = s'
    /\ pc' = "relocate"
    /\ UNCHANGED <<input, capOnlyFirst, optLoc, newLoc, options, relocated>>

\* s := markdownify(buf), the whole loop
Markdownify ==
    /\ pc = "markdownify"
    /\ SetMd(MdRun(MdState))
    /\ s' = BufString(w')
    /\ escaped' = s'
    /\ pc' = "relocate"
    /\ UNCHANGED <<input, capOnlyFirst, optLoc, newLoc, options, relocated>>

\* lines 81-100
Relocate ==
    /\ pc = "relocate"
    /\ LET res == relocate(s)
       IN  /\ s' = res.s
           /\ optLoc' = res.optLoc
           /\ newLoc' = res.newLoc
           /\ options' = res.options
    /\ relocated' = s'
    /\ pc' = "capitalize"
    /\ UNCHANGED <<input, capOnlyFirst, r, w, last, inCode, scanned, escaped>>

\* lines 103-109
Capitalize ==
    /\ pc = "capitalize"
    /\ s' = capitalize(s, capOnlyFirst)
    /\ pc' = "done"
    /\ UNCHANGED <<input, capOnlyFirst, r, w, last, inCode, scanned, optLoc,
                   newLoc, options, escaped, relocated>>

Next == Markdownify \/ Relocate \/ Capitalize

Spec == Init /\ [][Next]_vars

NextScan ==
    \/ ScanLt
    \/ ScanGt
    \/ ScanQuote
    \/ ScanStar
    \/ ScanEscape
    \/ ScanDefault
    \/ ScanEOF

SpecScan == InitScan /\ [][NextScan]_vars

(***************************************************************************)
(* Vocabulary of the properties.                                           *)
(***************************************************************************)
Range(str) == {str[i] : i \in 1..Len(str)}

RECURSIVE Count(_, _)
Count(str, c) ==
    IF str = <<>> THEN 0
    ELSE (IF Head(str) = c THEN 1 ELSE 0) + Count(Tail(str), c)

RECURSIVE Project(_, _)
Project(str, S) ==
    IF str = <<>> THEN <<>>
    ELSE (IF Head(str) \in S THEN <<Head(str)>> ELSE <<>>) \o Project(Tail(str), S)

\* markdownify has returned
Returned == pc # "markdownify"

\* a run of three quotes starts at offset i
FenceAt(str, i) == i + 3 <= Len(str) /\ Slice(str, i, i + 3) = Fence

\* the offsets of the fences of str, read from the left, from offset i on
RECURSIVE FencesFrom(_, _)
FencesFrom(str, i) ==
    IF i >= Len(str) THEN <<>>
    ELSE IF FenceAt(str, i) THEN <<i>> \o FencesFrom(str, i + 3)
    ELSE FencesFrom(str, i + 1)

Fences(str) == FencesFrom(str, 0)

\* str with each fence reduced to its first quote: the bytes a scanner that
\* consumes nothing but whole fences dispatches on
RECURSIVE FencesAsOne(_, _)
FencesAsOne(str, i) ==
    IF i >= Len(str) THEN <<>>
    ELSE IF FenceAt(str, i) THEN <<"'">> \o FencesAsOne(str, i + 3)
    ELSE <<str[i + 1]>> \o FencesAsOne(str, i + 1)

\* the length of the run of backslashes that ends str
RECURSIVE EscRun(_)
EscRun(str) ==
    IF str = <<>> \/ str[Len(str)] # escapeByte THEN 0
    ELSE 1 + EscRun(SubSeq(str, 1, Len(str) - 1))

\* the dispatched bytes end in a backslash that no earlier backslash paired
\* with: the next byte is escaped
Escaping(str) == EscRun(str) % 2 = 1

\* the input is an opening fence and a body, or a body alone
InFence == Len(input) >= 3 /\ Slice(input, 0, 3) = Fence
Body == IF InFence THEN Slice(input, 3, Len(input)) ELSE input

(***************************************************************************)
(* C2, as stated: an angle bracket outside a code block becomes a backtick *)
(* unless the byte before it in the input is a backslash, and is kept      *)
(* inside a code block.  Stated for bodies without quotes and asterisks,   *)
(* where the code block is decided by the opening fence alone: the angle   *)
(* brackets and backticks of the output, after the fence's own, are the    *)
(* ones the rule gives.                                                    *)
(***************************************************************************)
RECURSIVE AnglesByPrecedingByte(_, _, _)
AnglesByPrecedingByte(str, i, code) ==
    IF i > Len(str) THEN <<>>
    ELSE (IF str[i] \notin {"<", ">"} THEN <<>>
          ELSE IF code \/ (i > 1 /\ str[i - 1] = escapeByte) THEN <<str[i]>>
          ELSE <<Backtick>>)
         \o AnglesByPrecedingByte(str, i + 1, code)

C2_AngleByPrecedingByte ==
    (Returned /\ Range(Body) \cap {"'", "*"} = {})
    => Project(escaped, {"<", ">", Backtick})
         = (IF InFence THEN <<Backtick, Backtick, Backtick>> ELSE <<>>)
           \o AnglesByPrecedingByte(Body, 1, InFence)

(***************************************************************************)
(* C2, amended: every angle bracket the switch is entered with is written  *)
(* as a backtick when the scanner is outside a code block and the bracket  *)
(* is not escaped, and as itself otherwise; a bracket is escaped when the  *)
(* bytes dispatched before it end in an odd number of backslashes.  The    *)
(* escaping backslash itself is never written.                             *)
(***************************************************************************)
C2_AngleByEscapeState ==
    [][\A c \in {"<", ">", escapeByte} :
         (pc = "markdownify" /\ scanned' = Append(scanned, c))
         => IF c = escapeByte
            THEN (~Escaping(scanned) => w'.buf = w.buf)
            ELSE w'.buf = Append(w.buf, IF ~inCode /\ ~Escaping(scanned)
                                        THEN Backtick ELSE c)]_vars

\* a bracket after a collapsed pair of backslashes became a backtick, and
\* the bracket after it, unescaped too, another
C2_Witness ==
    /\ Returned
    /\ scanned = <<escapeByte, escapeByte, "<", ">">>
    /\ escaped = <<escapeByte, Backtick, Backtick>>

(***************************************************************************)
(* C3: every run of three quotes toggles inCode and is written as three    *)
(* backticks; "shell" follows the backticks exactly when the fence opens a *)
(* code block and whitespace follows it, and that whitespace is still      *)
(* written after "shell".  Stated for inputs without angle brackets, whose *)
(* output has no other backticks.                                          *)
(***************************************************************************)
OpeningWithSpace(str) ==
    {k \in 1..Len(Fences(str)) :
        /\ k % 2 = 1
        /\ Fences(str)[k] + 3 < Len(str)
        /\ str[Fences(str)[k] + 4] = " "}

C3_FencesToggle ==
    (Returned /\ Range(input) \cap {"<", ">"} = {})
    => /\ Count(escaped, Backtick) = 3 * Len(Fences(input))
       /\ inCode = (Len(Fences(input)) % 2 = 1)
       /\ Count(escaped, "s") = Cardinality(OpeningWithSpace(input))
       /\ \A i \in 1..Len(escaped) :
            escaped[i] = "s" => /\ i > 3
                                /\ SubSeq(escaped, i - 3, i - 1)
                                     = <<Backtick, Backtick, Backtick>>
                                /\ i + 5 <= Len(escaped)
                                /\ SubSeq(escaped, i, i + 5)
                                     = <<"s", "h", "e", "l", "l", " ">>

(***************************************************************************)
(* C4: a quote that does not start a run of three is written as itself and *)
(* both bytes read after it are pushed back: the scanner dispatches on     *)
(* every byte that is not the second or third quote of a fence, and an     *)
(* input of quotes, blanks and letters without a fence is returned whole.  *)
(* Stated for inputs without asterisks.                                    *)
(***************************************************************************)
C4_LookaheadPushedBack ==
    (Returned /\ "*" \notin Range(input))
    => /\ scanned = FencesAsOne(input, 0)
       /\ (Fences(input) = <<>> /\ Range(input) \subseteq {"'", " ", "a"}
           => escaped = input)

(***************************************************************************)
(* C5: inside a code block two adjacent asterisks are dropped and any      *)
(* other asterisk is written, the byte after it being scanned as usual;    *)
(* outside a code block every asterisk is written.  Stated for bodies of   *)
(* asterisks and letters.                                                  *)
(***************************************************************************)
RECURSIVE DropPairs(_)
DropPairs(str) ==
    IF str = <<>> THEN <<>>
    ELSE IF Len(str) >= 2 /\ str[1] = "*" /\ str[2] = "*"
         THEN DropPairs(SubSeq(str, 3, Len(str)))
    ELSE <<Head(str)>> \o DropPairs(Tail(str))

C5_AsteriskInCode ==
    (Returned /\ Range(Body) \subseteq {"*", "a"})
    => escaped = IF InFence
                 THEN <<Backtick, Backtick, Backtick>> \o DropPairs(Body)
                 ELSE Body

(***************************************************************************)
(* C6, as stated: two adjacent backslashes give one backslash, and a       *)
(* single backslash that no '<' or '>' follows is kept.  Stated for inputs *)
(* without quotes and asterisks, by the backslashes of the output: each    *)
(* maximal run of n backslashes gives n/2, and one more when n is odd and  *)
(* no angle bracket follows the run.                                       *)
(***************************************************************************)
RECURSIVE KeptBackslashes(_, _, _)
KeptBackslashes(str, i, run) ==
    IF i > Len(str) THEN (run \div 2) + (run % 2)
    ELSE IF str[i] = escapeByte THEN KeptBackslashes(str, i + 1, run + 1)
    ELSE (run \div 2)
         + (IF run % 2 = 1 /\ str[i] \notin {"<", ">"} THEN 1 ELSE 0)
         + KeptBackslashes(str, i + 1, 0)

C6_LoneBackslashKept ==
    (Returned /\ Range(input) \cap {"'", "*"} = {})
    => Count(escaped, escapeByte) = KeptBackslashes(input, 1, 0)

(***************************************************************************)
(* C6, amended: of the bytes the switch is entered with, two adjacent      *)
(* backslashes give one backslash and a backslash left without a partner   *)
(* gives none, whatever follows it (an angle bracket, another byte, the    *)
(* end of the input): each maximal run of n dispatched backslashes gives   *)
(* n/2 backslashes, and the output has no others.                          *)
(***************************************************************************)
RECURSIVE PairedBackslashes(_, _, _)
PairedBackslashes(str, i, run) ==
    IF i > Len(str) THEN run \div 2
    ELSE IF str[i] = escapeByte THEN PairedBackslashes(str, i + 1, run + 1)
    ELSE (run \div 2) + PairedBackslashes(str, i + 1, 0)

C6_BackslashPairs ==
    Returned => Count(escaped, escapeByte) = PairedBackslashes(scanned, 1, 0)

\* a single backslash was dropped and a pair was collapsed
C6_Witness ==
    /\ Returned
    /\ scanned = <<escapeByte, "a", escapeByte, escapeByte>>
    /\ escaped = <<"a", escapeByte>>

(***************************************************************************)
(* Sections, as the properties speak of them: a section starts at a line   *)
(* that begins with "## <title>" and extends to the next line that begins  *)
(* with "##", or to the end of the document.                               *)
(***************************************************************************)
Relocated == pc \in {"capitalize", "done"}

HasPrefixAt(str, i, pre) ==
    i + Len(pre) <= Len(str) /\ Slice(str, i, i + Len(pre)) = pre

\* the offset of the first line at or after offset i that begins with pre,
\* or -1
RECURSIVE LineWith(_, _, _)
LineWith(str, pre, i) ==
    IF i + Len(pre) > Len(str) THEN -1
    ELSE IF LineStart(str, i) /\ HasPrefixAt(str, i, pre) THEN i
    ELSE LineWith(str, pre, i + 1)

SectionStart(str, h) == LineWith(str, Header(h), 0)

\* the end of the extent of the section whose header is at offset start
ExtentEnd(str, start) ==
    LET next == LineWith(str, <<"#", "#">>, start + 1)
    IN  IF next = -1 THEN Len(str) ELSE next

HasOptions(str) == Index(str, Header(OPTIONS)) # -1

OptionsStart(str) == Index(str, Header(OPTIONS))

OptionsSpan(str) ==
    LET start == OptionsStart(str)
    IN  Slice(str, start, ExtentEnd(str, start))

\* str without its OPTIONS span
WithoutOptions(str) ==
    LET start == OptionsStart(str)
    IN  Slice(str, 0, start) \o Slice(str, ExtentEnd(str, start), Len(str))

Priority == <<POSITIONAL, Description, USAGE, NAME>>

\* the first title of Priority that has a section in str, or <<>>
TargetOf(str) ==
    IF \E k \in 1..Len(Priority) : SectionStart(str, Priority[k]) # -1
    THEN Priority[CHOOSE k \in 1..Len(Priority) :
                    /\ SectionStart(str, Priority[k]) # -1
                    /\ \A j \in 1..(k - 1) : SectionStart(str, Priority[j]) = -1]
    ELSE <<>>

TargetStart(str) == SectionStart(str, TargetOf(str))

RECURSIVE LowerChars(_, _)
LowerChars(str, i) ==
    IF i >= Len(str) THEN <<>>
    ELSE ToLowerRune(DecodeRune(str, i).rune)
         \o LowerChars(str, i + DecodeRune(str, i).size)

\* a header line: "## ", the first character of the title, the rest
HeaderLowered(line) ==
    LET first == DecodeRune(line, 3)
    IN  Slice(line, 0, 3) \o first.rune
        \o LowerChars(Slice(line, 3 + first.size, Len(line)), 0)

RECURSIVE LinesLowered(_, _)
LinesLowered(str, i) ==
    IF i >= Len(str) THEN <<>>
    ELSE LET e    == LineEnd(str, i)
             line == Slice(str, i, e)
             nl   == IF e < Len(str) THEN <<"\n">> ELSE <<>>
             next == IF e < Len(str) THEN e + 1 ELSE e
         IN  (IF Len(line) >= 4 /\ HasPrefixAt(line, 0, <<"#", "#", " ">>)
              THEN HeaderLowered(line) ELSE line)
             \o nl \o LinesLowered(str, next)

C7_HeaderLowercased ==
    pc = "done"
    => s = IF capOnlyFirst THEN LinesLowered(relocated, 0) ELSE relocated

(***************************************************************************)
(* C8, as stated: a normalized text without '<', '>' and three quotes in a *)
(* row is normalized to itself.  The text is a help document: it has at    *)
(* most one "## OPTIONS", at the start of a line.                          *)
(***************************************************************************)
NoMarkers(str) == Range(str) \cap {"<", ">"} = {} /\ Fences(str) = <<>>

OptionsBeginsLine(str) == HasOptions(str) => LineStart(str, OptionsStart(str))

OneOptions(str) ==
    HasOptions(str)
    => Index(Slice(str, OptionsStart(str) + 1, Len(str)), Header(OPTIONS)) = -1

C8_Idempotent ==
    (pc = "done" /\ NoMarkers(s) /\ OneOptions(s) /\ OptionsBeginsLine(s))
    => helpPreprocessor(s, capOnlyFirst) = s

(***************************************************************************)
(* C8, amended: a normalized text is normalized to itself when it has no   *)
(* '<', no '>', no backslash, no quote other than as its last byte, and    *)
(* its only "## OPTIONS", if it has one, begins a line.                    *)
(***************************************************************************)
QuoteOnlyLast(str) == \A i \in 1..(Len(str) - 1) : str[i] # "'"

PlainText(str) ==
    /\ Range(str) \cap {"<", ">", escapeByte} = {}
    /\ QuoteOnlyLast(str)
    /\ OneOptions(str)
    /\ OptionsBeginsLine(str)

C8_IdempotentOnPlainText ==
    (pc = "done" /\ PlainText(s)) => helpPreprocessor(s, capOnlyFirst) = s

\* a text that all three steps changed and that is normalized to itself
C8_Witness ==
    /\ pc = "done"
    /\ PlainText(s)
    /\ escaped # input
    /\ relocated # escaped
    /\ s # relocated

(***************************************************************************)
(* C9, as stated: the options are inserted at the end of the extent the    *)
(* target section has in the document before the excision.                 *)
(***************************************************************************)
C9_OffsetOnOriginal ==
    (Relocated /\ HasOptions(escaped))
    => LET target == TargetOf(escaped)
       IN  target # <<>>
           => newLoc = ExtentEnd(escaped, SectionStart(escaped, target))

(***************************************************************************)
(* C9, amended: the options are inserted at the end of the extent the      *)
(* target section has in the document after the excision: the end it has   *)
(* in the original document when the target precedes OPTIONS, and that end *)
(* less the length of the OPTIONS span when OPTIONS precedes the target.   *)
(***************************************************************************)
C9_OffsetAfterExcision ==
    (Relocated /\ HasOptions(escaped))
    => LET target == TargetOf(escaped)
           start  == SectionStart(escaped, target)
           end    == ExtentEnd(escaped, start)
       IN  target # <<>>
           => newLoc = IF start < OptionsStart(escaped) THEN end
                       ELSE end - Len(OptionsSpan(escaped))

\* OPTIONS preceded the target, and a section followed the target
C9_Witness ==
    /\ Relocated
    /\ HasOptions(escaped)
    /\ TargetOf(escaped) # <<>>
    /\ OptionsStart(escaped) < TargetStart(escaped)
    /\ ExtentEnd(escaped, TargetStart(escaped)) < Len(escaped)
    /\ newLoc = ExtentEnd(escaped, TargetStart(escaped)) - Len(options)

(***************************************************************************)
(* C10: the relocation moves the OPTIONS span and changes nothing else:    *)
(* the length is kept, the document without the span is the same before    *)
(* and after, and a document without "## OPTIONS" is returned as it is.    *)
(***************************************************************************)
C10_RelocationPreservesContent ==
    Relocated
    => /\ Len(relocated) = Len(escaped)
       /\ ~HasOptions(escaped) => relocated = escaped
       /\ HasOptions(escaped)
          => LET span == OptionsSpan(escaped)
                 rest == WithoutOptions(escaped)
             IN  \E at \in 0..Len(relocated) :
                    /\ HasPrefixAt(relocated, at, span)
                    /\ Slice(relocated, 0, at)
                       \o Slice(relocated, at + Len(span), Len(relocated))
                       = rest

\* the span was moved to the end of a document that has no target section
C10_Witness ==
    /\ Relocated
    /\ HasOptions(escaped)
    /\ TargetOf(escaped) = <<>>
    /\ relocated # escaped
    /\ relocated = WithoutOptions(escaped) \o OptionsSpan(escaped)

=============================================================================
